---- MODULE Spec2Model ----
(***************************************************************************)
(* Model of the Drift Skia bridge (pkg/skia/bridge): the typeface resolver *)
(* with its single-slot cache and font-manager singleton, the GL and       *)
(* Vulkan surface provisioners and Vulkan context creation.                *)
(*                                                                         *)
(* skia_gl.cc and skia_vk.cc carry identical copies of get_font_manager    *)
(* and resolve_typeface; the resolver is modelled once.                    *)
(***************************************************************************)
EXTENDS Integers, Sequences, FiniteSets, TLC

VARIABLES
    cache,          \* resolve_typeface: static Cache cache
    once,           \* get_font_manager: static std::once_flag once
    manager,        \* get_font_manager: static sk_sp<SkFontMgr> manager
    custom,         \* families with a registered custom typeface
    rcall,          \* observation of the most recent resolve_typeface call
    bgraCompiled,   \* build: GL_BGRA8_EXT is defined
    rgba8Defined,   \* build: GL_RGBA8 is defined by the GL headers
    gcall,          \* observation of the most recent GPU bridge call
    dctx,           \* the context behind handle 1 and the GPU work queued on it
    pc,             \* per thread: position inside get_font_manager
    ret,            \* per thread: the manager its last call returned
    runner,         \* the thread executing the call_once body, 0 when none
    minit,          \* observation of the executions of the call_once body
    rt,             \* threads inside resolve_typeface, and whether the host
                    \* serializes them
    sk              \* the animation behind handle 1 and the caller's output
                    \* cells

vars == <<cache, once, manager, custom, rcall, bgraCompiled, rgba8Defined,
          gcall, dctx, pc, ret, runner, minit, rt, sk>>

fontVars == <<cache, once, manager, custom, rcall>>
gpuVars == <<bgraCompiled, rgba8Defined, gcall, dctx, sk>>
onceVars == <<pc, ret, runner, minit, rt>>

(***************************************************************************)
(* Values                                                                  *)
(***************************************************************************)

\* a null const char*
NullStr == "<null>"

\* families a caller passes to resolve_typeface
InFamilies == {NullStr, "", "Brand"}

\* weights a caller passes to resolve_typeface
InWeights == {50, 100, 400, 950}

\* style arguments a caller passes (1 is italic, everything else upright)
InStyles == {0, 1, 2}

\* names the system font manager may know; NullStr stands for the
\* no-family (default) match
QueryNames == {NullStr, "Brand", "sans-serif", "Roboto"}

\* the weight sets a system font manager may serve
WeightSets == {{400}, {100, 400, 900}}

\* families for which the application may register a custom typeface
CustomFamilies == {"Brand"}

MinWeight == 100
MaxWeight == 900
NormalWeight == 400

NoTypeface == [src |-> "none", name |-> "", weight |-> 0, slant |-> ""]

CustomTypeface(f) == [src |-> "custom", name |-> f, weight |-> 0, slant |-> ""]

SysTypeface(n, w, sl) == [src |-> "sys", name |-> n, weight |-> w, slant |-> sl]

(***************************************************************************)
(* Font manager (SkFontMgr) as the resolver sees it                        *)
(***************************************************************************)

\* a font manager: the enumerator that built it, the names it can match
\* (NullStr stands for the no-family match) and the weights it can match
Manager(kind, fonts, weights) ==
    [kind |-> kind, fonts |-> fonts, weights |-> weights]

NullManager == Manager("null", {}, {})

matchFamilyStyle(m, n, w, sl) ==
    IF n \in m.fonts /\ w \in m.weights
    THEN SysTypeface(n, w, sl)
    ELSE NoTypeface

\* enumeration order of the real families
FamilyOrder == <<"Roboto", "Brand", "sans-serif">>

FamilyList(m) == SelectSeq(FamilyOrder, LAMBDA n : n \in m.fonts)

countFamilies(m) == Len(FamilyList(m))

getFamilyName(m, i) == FamilyList(m)[i + 1]

\* lines 70-77 of the call_once lambda: the NDK enumerator, then the legacy
\* one, then the empty manager; fonts and weights are what an enumerator
\* finds on the system
NewManager(ndk, legacy, empty, fonts, weights) ==
    IF ndk THEN Manager("ndk", fonts, weights)
    ELSE IF legacy THEN Manager("legacy", fonts, weights)
    ELSE IF empty THEN Manager("empty", {}, {})
    ELSE NullManager

\* lines 78-83
InitLog(m) ==
    IF m # NullManager
    THEN [level |-> "INFO", text |-> "Font manager ready",
          args |-> <<countFamilies(m)>>]
    ELSE [level |-> "ERROR", text |-> "Font manager init failed",
          args |-> <<>>]

\* get_font_manager: the manager returned, and the log lines of this call
get_font_manager(ndk, legacy, empty, fonts, weights) ==
    IF once
    THEN [manager |-> manager, logs |-> <<>>]
    ELSE LET m == NewManager(ndk, legacy, empty, fonts, weights)
         IN [manager |-> m, logs |-> <<InitLog(m)>>]

(***************************************************************************)
(* resolve_typeface                                                        *)
(***************************************************************************)

ClampLowOnly(w, lo, hi) == IF w < lo THEN lo ELSE w

\* line 97: std::clamp
Clamp(w, lo, hi) == IF w < lo THEN lo ELSE IF hi < w THEN hi ELSE w

FamilyNameKeepNull(family) == IF family # "" THEN family ELSE ""

\* line 98: a null and an empty family both become the empty name
FamilyName(family) == IF family # NullStr /\ family # "" THEN family ELSE ""

Slant(style) == IF style = 1 THEN "italic" ELSE "upright"

\* lookup_custom_typeface, provided by skia_common_impl.h
lookup_custom_typeface(family) ==
    IF family \in custom THEN CustomTypeface(family) ELSE NoTypeface

Query(fn, n, w, sl) == [fn |-> fn, name |-> n, weight |-> w, slant |-> sl]

CacheHitRawWeight(c, fname, rawWeight, weight, style) ==
    /\ c.typeface # NoTypeface
    /\ c.weight = rawWeight
    /\ c.style = style
    /\ c.family = fname

\* line 99: the cache test
CacheHit(c, fname, rawWeight, weight, style) ==
    /\ c.typeface # NoTypeface
    /\ c.weight = weight
    /\ c.style = style
    /\ c.family = fname

\* one manager->matchFamilyStyle step of the chain, taken only while nothing
\* has been found and cond holds
Try(acc, cond, m, n, w, sl) ==
    IF acc.tf = NoTypeface /\ m # NullManager /\ cond
    THEN [tf |-> matchFamilyStyle(m, n, w, sl),
          calls |-> Append(acc.calls, Query("matchFamilyStyle", n, w, sl))]
    ELSE acc

TryCustom(family) ==
    [tf |-> lookup_custom_typeface(family),
     calls |-> <<Query("lookup_custom_typeface", family, 0, "")>>]

TryFamily(acc, m, fname, w, sl) == Try(acc, fname # "", m, fname, w, sl)

TryDefault(acc, m, w, sl) == Try(acc, TRUE, m, NullStr, w, sl)

TrySansSerif(acc, m, w, sl) == Try(acc, TRUE, m, "sans-serif", w, sl)

TryFirstFamily(acc, m, w, sl) ==
    IF acc.tf = NoTypeface /\ m # NullManager
    THEN LET counted == [acc EXCEPT !.calls =
                            Append(@, Query("countFamilies", "", 0, ""))]
         IN IF countFamilies(m) > 0
            THEN LET named == [counted EXCEPT !.calls =
                                 Append(@, Query("getFamilyName", "", 0, ""))]
                 IN Try(named, TRUE, m, getFamilyName(m, 0), w, sl)
            ELSE counted
    ELSE acc

TrySansSerifNormalSameWeight(acc, m, w, sl) ==
    Try(acc, TRUE, m, "sans-serif", w, sl)

TrySansSerifNormal(acc, m, w, sl) ==
    Try(acc, TRUE, m, "sans-serif", NormalWeight, sl)

\* lines 106-127: the chain run on a cache miss
ResolveChain(family, fname, m, w, sl) ==
    TrySansSerifNormal(
        TryFirstFamily(
            TrySansSerif(
                TryDefault(
                    TryFamily(TryCustom(family), m, fname, w, sl),
                    m, w, sl),
                m, w, sl),
            m, w, sl),
        m, w, sl)

MissLogsAlways(tf, fname, w, style) ==
    <<[level |-> "WARN", text |-> "No typeface match",
       args |-> <<fname, w, style>>]>>

\* lines 128-130
MissLogs(tf, fname, w, style) ==
    IF tf = NoTypeface
    THEN <<[level |-> "WARN", text |-> "No typeface match",
            args |-> <<fname, w, style>>]>>
    ELSE <<>>

CacheStoreFoundOnly(c, fname, weight, style, tf) ==
    IF tf = NoTypeface
    THEN c
    ELSE [family |-> fname, weight |-> weight, style |-> style,
          typeface |-> tf]

\* lines 131-134: the slot is overwritten after every miss
CacheStore(c, fname, weight, style, tf) ==
    [family |-> fname, weight |-> weight, style |-> style, typeface |-> tf]

NoCall ==
    [op |-> "none", family |-> NullStr, weightIn |-> 0, style |-> 0,
     key |-> <<"", 0, 0>>, hit |-> FALSE, result |-> NoTypeface,
     calls |-> <<>>, logs |-> <<>>, registered |-> FALSE,
     repeat |-> FALSE, prevFound |-> FALSE, prevWeightIn |-> 0,
     prevFamily |-> NullStr]

\* the observation of a resolve call; the last four fields relate it to the
\* resolve call before it (its family argument is kept when its key was the
\* same)
Observe(family, weightIn, style, key, hit, result, calls, logs) ==
    [op |-> "resolve", family |-> family, weightIn |-> weightIn,
     style |-> style, key |-> key, hit |-> hit, result |-> result,
     calls |-> calls, logs |-> logs,
     registered |-> family \in custom,
     repeat |-> rcall.op = "resolve" /\ rcall.key = key,
     prevFound |-> rcall.op = "resolve" /\ rcall.result # NoTypeface,
     prevWeightIn |-> rcall.weightIn,
     prevFamily |-> IF rcall.op = "resolve" /\ rcall.key = key
                    THEN rcall.family
                    ELSE NullStr]

Resolve(family, weightIn, style, ndk, legacy, empty, fonts, weights) ==
    LET weight == Clamp(weightIn, MinWeight, MaxWeight)
        fname == FamilyName(family)
        key == <<fname, weight, style>>
    IN IF CacheHit(cache, fname, weightIn, weight, style)
       THEN /\ rcall' = Observe(family, weightIn, style, key, TRUE,
                                cache.typeface, <<>>, <<>>)
            /\ UNCHANGED <<cache, once, manager>>
       ELSE LET sl == Slant(style)
                gm == get_font_manager(ndk, legacy, empty, fonts, weights)
                m == gm.manager
                found == ResolveChain(family, fname, m, weight, sl)
                logs == gm.logs \o MissLogs(found.tf, fname, weight, style)
            IN /\ once' = TRUE
               /\ manager' = m
               /\ cache' = CacheStore(cache, fname, weight, style, found.tf)
               /\ rcall' = Observe(family, weightIn, style, key, FALSE,
                                   found.tf, found.calls, logs)

\* what the enumerators can yield and find; they are consulted on the first
\* call only
Enumerators == IF once THEN {FALSE} ELSE BOOLEAN
\* SkFontMgr::RefEmpty hands out a process-wide empty manager and never
\* yields null
EmptyResults == IF once THEN {FALSE} ELSE {TRUE}
FontChoices == IF once THEN {{}} ELSE SUBSET QueryNames
WeightChoices == IF once THEN {{}} ELSE WeightSets

ResolveTypeface ==
    /\ \E family \in InFamilies, weightIn \in InWeights, style \in InStyles,
          ndk \in Enumerators, legacy \in Enumerators,
          empty \in EmptyResults, fonts \in FontChoices,
          weights \in WeightChoices :
          Resolve(family, weightIn, style, ndk, legacy, empty, fonts, weights)
    /\ UNCHANGED custom
    /\ UNCHANGED gpuVars
    /\ UNCHANGED onceVars

\* the application registers a custom typeface for a family
RegisterCustom ==
    /\ \E f \in CustomFamilies : custom' = custom \cup {f}
    /\ UNCHANGED <<cache, once, manager, rcall>>
    /\ UNCHANGED gpuVars
    /\ UNCHANGED onceVars


(***************************************************************************)
(* GPU bridge: surfaces and contexts                                       *)
(***************************************************************************)

\* handles crossing the boundary; 0 is the null handle
Handles == {0, 1}

\* width and height arguments
Dims == {-1, 0, 2}

\* (framebuffer binding, sample count) pairs read from the GL state
GLBindings == {<<0, 0>>, <<1, 4>>}

\* stencil depths read from the GL state
StencilBits == {0, 8}

\* what glGetString can return
GLVersions == {NullStr, "OpenGL ES 3.2"}
GLRenderers == {NullStr, "Adreno"}

\* VkFormat tokens a caller passes
VkFormats == {37, 44}

NullSurface == [kind |-> "null"]

NullContext == [kind |-> "null"]

NoEnv ==
    [fbo |-> 0, samples |-> 0, stencil |-> 0, accepts |-> {},
     strings |-> <<>>]

NoGpuCall ==
    [op |-> "none", args |-> <<>>, result |-> NullSurface, env |-> NoEnv,
     glReads |-> <<>>, attempts |-> <<>>, calls |-> <<>>, logs |-> <<>>]

\* a surface created on the live context of the given backend is the one
\* handle 1 names from then on
Track(d, kind, ctx, result) ==
    IF d.kind = kind /\ ctx # 0 /\ result # NullSurface
    THEN [d EXCEPT !.surface = result]
    ELSE d

\* lines 17-19: GL_RGBA8 falls back to GL_RGBA when the headers lack it
GL_RGBA8 == IF rgba8Defined THEN "GL_RGBA8" ELSE "GL_RGBA"

Fmt(format, color) == [format |-> format, color |-> color]

GLFormatListLegacyFirst ==
    <<Fmt("GL_RGBA", "kRGBA_8888"), Fmt(GL_RGBA8, "kRGBA_8888")>>
    \o (IF bgraCompiled THEN <<Fmt("GL_BGRA8_EXT", "kBGRA_8888")>> ELSE <<>>)
    \o <<Fmt("GL_RGB565", "kRGB_565")>>

\* lines 218-229: the color formats in the order they are tried
GLFormatList ==
    <<Fmt(GL_RGBA8, "kRGBA_8888"), Fmt("GL_RGBA", "kRGBA_8888")>>
    \o (IF bgraCompiled THEN <<Fmt("GL_BGRA8_EXT", "kBGRA_8888")>> ELSE <<>>)
    \o <<Fmt("GL_RGB565", "kRGB_565")>>

GLTokens == {GLFormatList[i].format : i \in 1..Len(GLFormatList)}

\* lines 176-203: succeeds when the driver wraps (format, stencil)
create_gl_surface(width, height, f, samples, stencil, fbo, accepts) ==
    IF <<f.format, stencil>> \in accepts
    THEN [kind |-> "wrapped", backend |-> "gl", width |-> width,
          height |-> height, format |-> f.format, color |-> f.color,
          samples |-> samples, stencil |-> stencil, fbo |-> fbo,
          origin |-> "top-left"]
    ELSE NullSurface

Attempt(f, stencil) ==
    [format |-> f.format, color |-> f.color, stencil |-> stencil]

\* the "if (!surface) surface = create_gl_surface(...)" ladder over a list
RECURSIVE TryFormats(_, _, _, _, _, _, _, _)
TryFormats(fmts, acc, width, height, samples, stencil, fbo, accepts) ==
    IF fmts = <<>> \/ acc.surface # NullSurface
    THEN acc
    ELSE TryFormats(Tail(fmts),
            [surface |-> create_gl_surface(width, height, Head(fmts), samples,
                                           stencil, fbo, accepts),
             attempts |-> Append(acc.attempts, Attempt(Head(fmts), stencil))],
            width, height, samples, stencil, fbo, accepts)

BadArgsNegativeOnly(ctx, width, height) ==
    ctx = 0 \/ width < 0 \/ height < 0

\* line 206 (and skia_gl.cc:276, skia_vk.cc:337)
BadArgs(ctx, width, height) == ctx = 0 \/ width <= 0 \/ height <= 0

NeedsStencilRetryAlways(surface, stencil) == surface = NullSurface

\* line 231
NeedsStencilRetry(surface, stencil) == surface = NullSurface /\ stencil # 0

\* lines 218-244: both passes
GLPasses(width, height, samples, stencil, fbo, accepts) ==
    LET first == TryFormats(GLFormatList,
                            [surface |-> NullSurface, attempts |-> <<>>],
                            width, height, samples, stencil, fbo, accepts)
    IN IF NeedsStencilRetry(first.surface, stencil)
       THEN TryFormats(GLFormatList, first, width, height, samples, 0, fbo,
                       accepts)
       ELSE first

OrUnknown(s) == IF s # NullStr THEN s ELSE "unknown"

GLFailureLogForcedStencil(fbo, samples, stencil, version, renderer) ==
    [level |-> "ERROR", text |-> "Failed GL surface",
     args |-> <<fbo, samples, 0, OrUnknown(version), OrUnknown(renderer)>>]

\* lines 249-252
GLFailureLog(fbo, samples, stencil, version, renderer) ==
    [level |-> "ERROR", text |-> "Failed GL surface",
     args |-> <<fbo, samples, stencil, OrUnknown(version),
                OrUnknown(renderer)>>]

GLStateReads == <<"GL_FRAMEBUFFER_BINDING", "GL_SAMPLES", "GL_STENCIL_BITS">>

\* drift_skia_surface_create_gl
SurfaceCreateGL ==
    /\ \E ctx \in Handles, width \in Dims, height \in Dims :
          IF BadArgs(ctx, width, height)
          THEN gcall' = [NoGpuCall EXCEPT !.op = "surface_create_gl",
                                          !.args = <<ctx, width, height>>]
          ELSE \E b \in GLBindings, stencil \in StencilBits :
               \E accepts \in SUBSET (GLTokens \X {stencil, 0}) :
                  LET fbo == b[1]
                      samples == b[2]
                      p == GLPasses(width, height, samples, stencil, fbo,
                                    accepts)
                      env == [fbo |-> fbo, samples |-> samples,
                              stencil |-> stencil, accepts |-> accepts,
                              strings |-> <<>>]
                  IN IF p.surface = NullSurface
                     THEN \E version \in GLVersions, renderer \in GLRenderers :
                             gcall' = [op |-> "surface_create_gl",
                                       args |-> <<ctx, width, height>>,
                                       result |-> NullSurface,
                                       env |-> [env EXCEPT !.strings =
                                                   <<version, renderer>>],
                                       glReads |-> GLStateReads
                                           \o <<"GL_VERSION", "GL_RENDERER">>,
                                       attempts |-> p.attempts,
                                       calls |-> <<>>,
                                       logs |-> <<GLFailureLog(fbo, samples,
                                           stencil, version, renderer)>>]
                     ELSE gcall' = [op |-> "surface_create_gl",
                                    args |-> <<ctx, width, height>>,
                                    result |-> p.surface,
                                    env |-> env,
                                    glReads |-> GLStateReads,
                                    attempts |-> p.attempts,
                                    calls |-> <<>>,
                                    logs |-> <<>>]
    /\ dctx' = Track(dctx, "gl", gcall'.args[1], gcall'.result)
    /\ UNCHANGED <<sk, bgraCompiled, rgba8Defined>>
    /\ UNCHANGED fontVars
    /\ UNCHANGED onceVars

BadVkArgsNoImage(ctx, width, height, vk_image) ==
    BadArgs(ctx, width, height)

\* skia_vk.cc line 273: the null image is part of the argument check
BadVkArgs(ctx, width, height, vk_image) ==
    BadArgs(ctx, width, height) \/ vk_image = 0

VkAttempt(vk_image, vk_format) ==
    [image |-> vk_image, format |-> vk_format, tiling |-> "OPTIMAL",
     layout |-> "UNDEFINED", samples |-> 1, levels |-> 1,
     queueFamily |-> "IGNORED", color |-> "kRGBA_8888"]

\* drift_skia_surface_create_vulkan
SurfaceCreateVulkan ==
    /\ \E ctx \in Handles, width \in Dims, height \in Dims,
          vk_image \in Handles, vk_format \in VkFormats, wrapOk \in BOOLEAN :
          IF BadVkArgs(ctx, width, height, vk_image)
          THEN gcall' = [NoGpuCall EXCEPT !.op = "surface_create_vulkan",
                            !.args = <<ctx, width, height, vk_image,
                                       vk_format>>]
          ELSE gcall' = [NoGpuCall EXCEPT !.op = "surface_create_vulkan",
                            !.args = <<ctx, width, height, vk_image,
                                       vk_format>>,
                            !.attempts = <<VkAttempt(vk_image, vk_format)>>,
                            !.result =
                                IF wrapOk
                                THEN [kind |-> "wrapped", backend |-> "vulkan",
                                      width |-> width, height |-> height,
                                      format |-> vk_format,
                                      color |-> "kRGBA_8888",
                                      origin |-> "top-left"]
                                ELSE NullSurface,
                            !.logs =
                                IF wrapOk
                                THEN <<>>
                                ELSE <<[level |-> "ERROR",
                                        text |-> "Failed to create Vulkan surface",
                                        args |-> <<width, height, vk_format>>]>>]
    /\ dctx' = Track(dctx, "vulkan", gcall'.args[1], gcall'.result)
    /\ UNCHANGED <<sk, bgraCompiled, rgba8Defined>>
    /\ UNCHANGED fontVars
    /\ UNCHANGED onceVars

\* dimensions offered to the offscreen creators: the valid width differs from
\* the valid height, so that a surface is wider than high
OffscreenWidths == {-1, 0, 3}

OffscreenHeights == {0, 2}

OffscreenBudgeted(backend, width, height, allocOk) ==
    IF allocOk
    THEN [kind |-> "offscreen", backend |-> backend, width |-> width,
          height |-> height, color |-> "kRGBA_8888", alpha |-> "premul",
          samples |-> 0, budgeted |-> TRUE, origin |-> "top-left"]
    ELSE NullSurface

\* SkSurfaces::RenderTarget as both offscreen creators call it
Offscreen(backend, width, height, allocOk) ==
    IF allocOk
    THEN [kind |-> "offscreen", backend |-> backend, width |-> width,
          height |-> height, color |-> "kRGBA_8888", alpha |-> "premul",
          samples |-> 0, budgeted |-> FALSE, origin |-> "top-left"]
    ELSE NullSurface

OffscreenCall(op, backend, ctx, width, height, allocOk) ==
    IF BadArgs(ctx, width, height)
    THEN [NoGpuCall EXCEPT !.op = op, !.args = <<ctx, width, height>>]
    ELSE [NoGpuCall EXCEPT !.op = op, !.args = <<ctx, width, height>>,
                           !.attempts = <<[alloc |-> "RenderTarget",
                                           width |-> width,
                                           height |-> height,
                                           ok |-> allocOk]>>,
                           !.result = Offscreen(backend, width, height,
                                                allocOk)]

\* drift_skia_surface_create_offscreen_gl
SurfaceCreateOffscreenGL ==
    /\ \E ctx \in Handles, width \in OffscreenWidths,
          height \in OffscreenHeights, allocOk \in BOOLEAN :
          gcall' = OffscreenCall("surface_create_offscreen_gl", "gl", ctx,
                                 width, height, allocOk)
    /\ dctx' = Track(dctx, "gl", gcall'.args[1], gcall'.result)
    /\ UNCHANGED <<sk, bgraCompiled, rgba8Defined>>
    /\ UNCHANGED fontVars
    /\ UNCHANGED onceVars

\* drift_skia_surface_create_offscreen_vulkan
SurfaceCreateOffscreenVulkan ==
    /\ \E ctx \in Handles, width \in OffscreenWidths,
          height \in OffscreenHeights, allocOk \in BOOLEAN :
          gcall' = OffscreenCall("surface_create_offscreen_vulkan", "vulkan",
                                 ctx, width, height, allocOk)
    /\ dctx' = Track(dctx, "vulkan", gcall'.args[1], gcall'.result)
    /\ UNCHANGED <<sk, bgraCompiled, rgba8Defined>>
    /\ UNCHANGED fontVars
    /\ UNCHANGED onceVars

\* no context has been created, or the last one was destroyed
NoDevice ==
    [kind |-> "none", refs |-> 0, instance |-> 0, deviceProc |-> FALSE,
     dirty |-> FALSE, pools |-> 0, work |-> "none",
     surface |-> NullSurface]

\* the context a successful creation leaves behind handle 1: one reference,
\* held by the host; no cached resources, nothing recorded
LiveContext(kind, instance, deviceProc) ==
    [kind |-> kind, refs |-> 1, instance |-> instance,
     deviceProc |-> deviceProc, dirty |-> FALSE, pools |-> 0,
     work |-> "none", surface |-> NullSurface]

VkErrorLog(text) == [level |-> "ERROR", text |-> text, args |-> <<>>]

VkInfoLog(text) == [level |-> "INFO", text |-> text, args |-> <<>>]

\* lines 180-249: everything after the null check
VkContextBuild(instance, phys, device, queue, qfi, devOk, f2Ok, mkOk) ==
    [calls |-> <<<<"vkGetInstanceProcAddr", "vkGetDeviceProcAddr">>,
                 <<"VulkanExtensions::init", "">>,
                 <<"vkGetInstanceProcAddr", "vkGetPhysicalDeviceFeatures2">>>>
               \o (IF f2Ok
                   THEN <<<<"vkGetPhysicalDeviceFeatures2", "">>>>
                   ELSE <<>>)
               \o <<<<"GrDirectContexts::MakeVulkan", "">>>>,
     result |-> IF mkOk
                THEN [kind |-> "vulkan", instance |-> instance,
                      physDevice |-> phys, device |-> device,
                      queue |-> queue, queueIndex |-> qfi,
                      maxApi |-> "1.1", features2 |-> f2Ok,
                      deviceProc |-> devOk]
                ELSE NullContext,
     logs |-> IF mkOk
              THEN <<VkInfoLog("Vulkan GrDirectContext created")>>
              ELSE <<VkErrorLog("Failed to create Vulkan GrDirectContext")>>]

VkContextCreateLateCheck(inst, phys, dev, queue, qfi, gipa, dOk, fOk, mOk) ==
    IF gipa = 0
    THEN [calls |-> <<<<"vkGetInstanceProcAddr", "vkGetDeviceProcAddr">>>>,
          result |-> NullContext,
          logs |-> <<VkErrorLog("vkGetInstanceProcAddr is null")>>]
    ELSE VkContextBuild(inst, phys, dev, queue, qfi, dOk, fOk, mOk)

\* lines 162-250
VkContextCreate(inst, phys, dev, queue, qfi, gipa, dOk, fOk, mOk) ==
    IF gipa = 0
    THEN [calls |-> <<>>,
          result |-> NullContext,
          logs |-> <<VkErrorLog("vkGetInstanceProcAddr is null")>>]
    ELSE VkContextBuild(inst, phys, dev, queue, qfi, dOk, fOk, mOk)

\* what the driver and the rendering library may answer; they are not asked
\* when the entry point is null
DriverAnswers(gipa) == IF gipa = 0 THEN {FALSE} ELSE BOOLEAN

\* drift_skia_context_create_vulkan
ContextCreateVulkan ==
    /\ dctx.kind \in {"none", "vulkan"}
    /\ \E instance \in Handles, phys \in Handles, device \in Handles,
          queue \in Handles, gipa \in Handles :
       \E devProcOk \in DriverAnswers(gipa), feat2Ok \in DriverAnswers(gipa),
          makeOk \in DriverAnswers(gipa) :
          LET r == VkContextCreate(instance, phys, device, queue, 0, gipa,
                                   devProcOk, feat2Ok, makeOk)
          IN /\ gcall' = [NoGpuCall EXCEPT
                            !.op = "context_create_vulkan",
                            !.args = <<instance, phys, device, queue, 0,
                                       gipa>>,
                            !.result = r.result,
                            !.calls = r.calls,
                            !.logs = r.logs]
             /\ dctx' = IF r.result = NullContext
                        THEN dctx
                        ELSE LiveContext("vulkan", instance, devProcOk)
    /\ UNCHANGED <<sk, bgraCompiled, rgba8Defined>>
    /\ UNCHANGED fontVars
    /\ UNCHANGED onceVars

(***************************************************************************)
(* Context lifecycle: creation, drawing, flush, purge, destruction         *)
(***************************************************************************)

\* skia_gl.cc lines 151-161
GLContextCreate(ifaceOk, makeOk) ==
    [calls |-> <<<<"GrGLMakeNativeInterface", "">>>>
               \o (IF ifaceOk
                   THEN <<<<"GrDirectContexts::MakeGL", "">>>>
                   ELSE <<>>),
     result |-> IF ifaceOk /\ makeOk THEN [kind |-> "gl"] ELSE NullContext]

\* drift_skia_context_create_gl
ContextCreateGL ==
    /\ dctx.kind \in {"none", "gl"}
    /\ \E ifaceOk \in BOOLEAN, makeOk \in BOOLEAN :
          LET r == GLContextCreate(ifaceOk, makeOk)
          IN /\ gcall' = [NoGpuCall EXCEPT !.op = "context_create_gl",
                                           !.result = r.result,
                                           !.calls = r.calls]
             /\ dctx' = IF r.result = NullContext
                        THEN dctx
                        ELSE LiveContext("gl", 0, FALSE)
    /\ UNCHANGED <<sk, bgraCompiled, rgba8Defined>>
    /\ UNCHANGED fontVars
    /\ UNCHANGED onceVars

MetalContextFromDevice(device, queue) ==
    IF device # 0 /\ queue # 0 THEN [kind |-> "metal"] ELSE NullContext

\* the stub ignores its arguments
MetalContext(device, queue) == NullContext

\* drift_skia_context_create_metal
ContextCreateMetal ==
    /\ \E device \in Handles, queue \in Handles :
          gcall' = [NoGpuCall EXCEPT !.op = "context_create_metal",
                                    !.args = <<device, queue>>,
                                    !.result = MetalContext(device, queue)]
    /\ UNCHANGED <<sk, bgraCompiled, rgba8Defined, dctx>>
    /\ UNCHANGED fontVars
    /\ UNCHANGED onceVars

\* drift_skia_surface_create_metal
SurfaceCreateMetal ==
    /\ \E ctx \in Handles, texture \in Handles, width \in Dims,
          height \in Dims :
          gcall' = [NoGpuCall EXCEPT !.op = "surface_create_metal",
                                    !.args = <<ctx, width, height, texture>>,
                                    !.result = NullSurface]
    /\ UNCHANGED <<sk, bgraCompiled, rgba8Defined, dctx>>
    /\ UNCHANGED fontVars
    /\ UNCHANGED onceVars

\* drift_skia_surface_create_offscreen_metal
SurfaceCreateOffscreenMetal ==
    /\ \E ctx \in Handles, width \in Dims, height \in Dims :
          gcall' = [NoGpuCall EXCEPT !.op = "surface_create_offscreen_metal",
                                    !.args = <<ctx, width, height>>,
                                    !.result = NullSurface]
    /\ UNCHANGED <<sk, bgraCompiled, rgba8Defined, dctx>>
    /\ UNCHANGED fontVars
    /\ UNCHANGED onceVars

\* GrDirectContext::unref: the last reference releases the context
Unref(d) == IF d.refs = 1 THEN NoDevice ELSE [d EXCEPT !.refs = @ - 1]

\* drift_skia_context_destroy; a non-null handle names the live context
ContextDestroy ==
    /\ \E ctx \in Handles :
          /\ ctx # 0 => dctx.kind # "none"
          /\ IF ctx = 0
             THEN /\ gcall' = [NoGpuCall EXCEPT !.op = "context_destroy",
                                                !.args = <<ctx>>]
                  /\ dctx' = dctx
             ELSE /\ gcall' = [NoGpuCall EXCEPT !.op = "context_destroy",
                                                !.args = <<ctx>>,
                                                !.calls = <<<<"unref", "">>>>]
                  /\ dctx' = Unref(dctx)
    /\ UNCHANGED <<sk, bgraCompiled, rgba8Defined>>
    /\ UNCHANGED fontVars
    /\ UNCHANGED onceVars

\* the host draws into a surface of the live context: work is recorded but
\* not submitted, and resources are cached in the context's pools
Draw ==
    /\ dctx.kind # "none"
    /\ dctx.surface # NullSurface
    /\ dctx' = [dctx EXCEPT !.work = "pending", !.pools = 1]
    /\ gcall' = [NoGpuCall EXCEPT !.op = "draw"]
    /\ UNCHANGED <<sk, bgraCompiled, rgba8Defined>>
    /\ UNCHANGED fontVars
    /\ UNCHANGED onceVars

\* the GPU finishes submitted work on its own time
GpuComplete ==
    /\ dctx.work = "submitted"
    /\ dctx' = [dctx EXCEPT !.work = "completed"]
    /\ UNCHANGED <<sk, bgraCompiled, rgba8Defined, gcall>>
    /\ UNCHANGED fontVars
    /\ UNCHANGED onceVars

\* drift_skia_gl_bind_framebuffer: GL state changes behind the context's back
GLBindFramebuffer ==
    /\ dctx.kind \in {"none", "gl"}
    /\ \E fbo \in Handles :
          gcall' = [NoGpuCall EXCEPT !.op = "gl_bind_framebuffer",
                                    !.args = <<fbo>>,
                                    !.calls = <<<<"glBindFramebuffer", "">>>>]
    /\ dctx' = IF dctx.kind = "gl" THEN [dctx EXCEPT !.dirty = TRUE] ELSE dctx
    /\ UNCHANGED <<sk, bgraCompiled, rgba8Defined>>
    /\ UNCHANGED fontVars
    /\ UNCHANGED onceVars

\* GrDirectContext::flushAndSubmit: recorded work is submitted; with CPU
\* synchronisation the call also waits until all submitted work has finished
FlushWork(work, sync) ==
    IF work = "none" THEN "none"
    ELSE IF sync THEN "completed"
    ELSE IF work = "pending" THEN "submitted"
    ELSE work

NullFlushArgsCtxOnly(ctx, surface) == ctx = 0

\* skia_gl.cc line 268, skia_vk.cc line 320
NullFlushArgs(ctx, surface) == ctx = 0 \/ surface = 0

\* skia_gl.cc line 272: flushAndSubmit(sk_surface), the default is no sync
FlushCallGL(work) ==
    [calls |-> <<<<"flushAndSubmit", "GrSyncCpu::kNo">>>>,
     sync |-> FALSE,
     after |-> FlushWork(work, FALSE)]

FlushCallVulkanNoSync(work) ==
    [calls |-> <<<<"flushAndSubmit", "GrSyncCpu::kNo">>>>,
     sync |-> FALSE,
     after |-> FlushWork(work, FALSE)]

\* skia_vk.cc line 326: flushAndSubmit(sk_surface, GrSyncCpu::kYes)
FlushCallVulkan(work) ==
    [calls |-> <<<<"flushAndSubmit", "GrSyncCpu::kYes">>>>,
     sync |-> TRUE,
     after |-> FlushWork(work, TRUE)]

\* a flush call of either build; a non-null context handle names the live
\* context, a non-null surface handle one of its surfaces
Flush(op, kind, ctx, surface, c) ==
    /\ dctx.kind \in {"none", kind}
    /\ ctx # 0 => dctx.kind = kind
    /\ surface # 0 => dctx.surface # NullSurface
    /\ IF NullFlushArgs(ctx, surface)
       THEN /\ gcall' = [NoGpuCall EXCEPT !.op = op,
                                          !.args = <<ctx, surface>>]
            /\ dctx' = dctx
       ELSE /\ gcall' = [NoGpuCall EXCEPT
                            !.op = op,
                            !.args = <<ctx, surface>>,
                            !.calls = c.calls,
                            !.env = [before |-> dctx.work,
                                     after |-> c.after,
                                     sync |-> c.sync]]
            /\ dctx' = [dctx EXCEPT !.work = c.after]

\* drift_skia_surface_flush of skia_gl.cc
SurfaceFlushGL ==
    /\ \E ctx \in Handles, surface \in Handles :
          Flush("surface_flush_gl", "gl", ctx, surface,
                FlushCallGL(dctx.work))
    /\ UNCHANGED <<sk, bgraCompiled, rgba8Defined>>
    /\ UNCHANGED fontVars
    /\ UNCHANGED onceVars

\* drift_skia_surface_flush of skia_vk.cc
SurfaceFlushVulkan ==
    /\ \E ctx \in Handles, surface \in Handles :
          Flush("surface_flush_vulkan", "vulkan", ctx, surface,
                FlushCallVulkan(dctx.work))
    /\ UNCHANGED <<sk, bgraCompiled, rgba8Defined>>
    /\ UNCHANGED fontVars
    /\ UNCHANGED onceVars

PurgeGLReleasesContext(d) ==
    [calls |-> <<<<"resetContext", "">>, <<"freeGpuResources", "">>>>,
     after |-> [d EXCEPT !.dirty = FALSE, !.pools = 0, !.refs = @ - 1,
                         !.surface = NullSurface]]

\* skia_gl.cc lines 311-312: resetContext, then freeGpuResources
PurgeGL(d) ==
    [calls |-> <<<<"resetContext", "">>, <<"freeGpuResources", "">>>>,
     after |-> [d EXCEPT !.dirty = FALSE, !.pools = 0]]

PurgeVulkanWithReset(d) ==
    [calls |-> <<<<"resetContext", "">>, <<"freeGpuResources", "">>>>,
     after |-> [d EXCEPT !.dirty = FALSE, !.pools = 0]]

\* skia_vk.cc line 355: freeGpuResources alone
PurgeVulkan(d) ==
    [calls |-> <<<<"freeGpuResources", "">>>>,
     after |-> [d EXCEPT !.pools = 0]]

\* a purge call of either build
Purge(op, kind, ctx, c) ==
    /\ dctx.kind \in {"none", kind}
    /\ ctx # 0 => dctx.kind = kind
    /\ IF ctx = 0
       THEN /\ gcall' = [NoGpuCall EXCEPT !.op = op, !.args = <<ctx>>]
            /\ dctx' = dctx
       ELSE /\ gcall' = [NoGpuCall EXCEPT !.op = op, !.args = <<ctx>>,
                                          !.calls = c.calls,
                                          !.env = [before |-> dctx]]
            /\ dctx' = c.after

\* drift_skia_context_purge_resources of skia_gl.cc
ContextPurgeGL ==
    /\ \E ctx \in Handles :
          Purge("context_purge_resources_gl", "gl", ctx, PurgeGL(dctx))
    /\ UNCHANGED <<sk, bgraCompiled, rgba8Defined>>
    /\ UNCHANGED fontVars
    /\ UNCHANGED onceVars

\* drift_skia_context_purge_resources of skia_vk.cc
ContextPurgeVulkan ==
    /\ \E ctx \in Handles :
          Purge("context_purge_resources_vulkan", "vulkan", ctx,
                PurgeVulkan(dctx))
    /\ UNCHANGED <<sk, bgraCompiled, rgba8Defined>>
    /\ UNCHANGED fontVars
    /\ UNCHANGED onceVars

\* instances a caller of the resolver may supply: null, the instance the
\* context was created with, another one
VkInstances == {0, 1, 2}

ProcNames == {"vkCreateInstance", "vkCreateImage"}

NullFn == [kind |-> "null"]

\* what a driver entry point returns for a name it knows
Fn(level, handle, name) ==
    [kind |-> "fn", level |-> level, handle |-> handle, name |-> name]

\* one call of a driver entry point made by the closure
ProcCall(fn, handle, name) == [fn |-> fn, handle |-> handle, name |-> name]

GetProcNoCapture(name, inst, dev, captured, hasDevProc, devKnows, instKnows) ==
    LET devCall == ProcCall("vkGetDeviceProcAddr", dev, name)
        instCall == ProcCall("vkGetInstanceProcAddr", inst, name)
        instFn == IF instKnows THEN Fn("instance", inst, name) ELSE NullFn
    IN  IF dev # 0 /\ hasDevProc
        THEN IF devKnows
             THEN [calls |-> <<devCall>>, fn |-> Fn("device", dev, name)]
             ELSE [calls |-> <<devCall, instCall>>, fn |-> instFn]
        ELSE [calls |-> <<instCall>>, fn |-> instFn]

\* skia_vk.cc lines 184-200: the getProc closure
GetProc(name, inst, dev, captured, hasDevProc, devKnows, instKnows) ==
    LET resolveInst == IF inst = 0 /\ dev # 0 THEN captured ELSE inst
        devCall == ProcCall("vkGetDeviceProcAddr", dev, name)
        instCall == ProcCall("vkGetInstanceProcAddr", resolveInst, name)
        instFn == IF instKnows THEN Fn("instance", resolveInst, name)
                  ELSE NullFn
    IN  IF dev # 0 /\ hasDevProc
        THEN IF devKnows
             THEN [calls |-> <<devCall>>, fn |-> Fn("device", dev, name)]
             ELSE [calls |-> <<devCall, instCall>>, fn |-> instFn]
        ELSE [calls |-> <<instCall>>, fn |-> instFn]

\* the rendering library calls the closure of the live Vulkan context
VkGetProc ==
    /\ dctx.kind = "vulkan"
    /\ \E name \in ProcNames, inst \in VkInstances, dev \in Handles,
          devKnows \in BOOLEAN, instKnows \in BOOLEAN :
          LET r == GetProc(name, inst, dev, dctx.instance, dctx.deviceProc,
                           devKnows, instKnows)
          IN gcall' = [NoGpuCall EXCEPT
                          !.op = "vk_get_proc",
                          !.args = <<inst, dev>>,
                          !.env = [name |-> name,
                                   captured |-> dctx.instance,
                                   hasDevProc |-> dctx.deviceProc,
                                   devKnows |-> devKnows,
                                   instKnows |-> instKnows],
                          !.attempts = r.calls,
                          !.calls = [i \in DOMAIN r.calls |->
                                        <<r.calls[i].fn, name>>],
                          !.result = r.fn]
    /\ UNCHANGED <<sk, bgraCompiled, rgba8Defined, dctx>>
    /\ UNCHANGED fontVars
    /\ UNCHANGED onceVars

(***************************************************************************)
(* State outside the calls above                                           *)
(***************************************************************************)

\* number of threads calling get_font_manager concurrently
NumThreads == 2

Threads == 1..NumThreads

\* nothing has run the call_once body yet
NoInitRun ==
    [runs |-> 0, waits |-> 0, tried |-> <<>>, avail |-> <<>>, fonts |-> {},
     weights |-> {}, logs |-> <<>>, final |-> NullManager]

\* a thread that has not returned from get_font_manager yet
NoReturn == [kind |-> "none"]

\* a thread outside resolve_typeface that has not called it yet
IdleThread ==
    [pc |-> "idle", family |-> "", weight |-> -1, style |-> -1,
     typeface |-> NoTypeface, done |-> FALSE]

\* no thread is inside resolve_typeface
NoRace == [serial |-> TRUE, th |-> [t \in Threads |-> IdleThread]]

InitOnce ==
    /\ pc = [t \in Threads |-> "idle"]
    /\ ret = [t \in Threads |-> NoReturn]
    /\ runner = 0
    /\ minit = NoInitRun
    /\ rt = NoRace

(***************************************************************************)
(* get_font_manager called from several threads                            *)
(***************************************************************************)

CanRunOnceUnlocked(t) == ~once

\* std::call_once lets one caller in while the flag is neither set nor held
CanRunOnce(t) == ~once /\ runner = 0

\* line 69: a caller reaches std::call_once
GfmEnter ==
    /\ \E t \in Threads :
          /\ pc[t] = "idle"
          /\ IF once
             THEN /\ pc' = [pc EXCEPT ![t] = "return"]
                  /\ UNCHANGED <<runner, minit>>
             ELSE IF CanRunOnce(t)
             THEN /\ pc' = [pc EXCEPT ![t] = "ndk"]
                  /\ runner' = t
                  /\ minit' = [minit EXCEPT !.runs = @ + 1]
             ELSE /\ pc' = [pc EXCEPT ![t] = "wait"]
                  /\ minit' = [minit EXCEPT !.waits = @ + 1]
                  /\ UNCHANGED runner
    /\ UNCHANGED <<cache, once, manager, custom, rcall, ret>>
    /\ UNCHANGED rt
    /\ UNCHANGED gpuVars

\* lines 70-71: the NDK enumerator
GfmInitNDK ==
    /\ \E t \in Threads, ndk \in Enumerators, fonts \in FontChoices,
          weights \in WeightChoices :
          /\ pc[t] = "ndk"
          /\ manager' = IF ndk THEN Manager("ndk", fonts, weights)
                        ELSE NullManager
          /\ minit' = [minit EXCEPT !.tried = Append(@, "ndk"),
                                    !.avail = Append(@, ndk),
                                    !.fonts = fonts,
                                    !.weights = weights]
          /\ pc' = [pc EXCEPT ![t] = "legacy"]
    /\ UNCHANGED <<cache, once, custom, rcall, ret, runner>>
    /\ UNCHANGED rt
    /\ UNCHANGED gpuVars

NeedsFallbackAlways(m) == TRUE

\* lines 72 and 75: if (!manager)
NeedsFallback(m) == m = NullManager

\* lines 72-74: the legacy enumerator
GfmInitLegacy ==
    /\ \E t \in Threads, legacy \in Enumerators :
          /\ pc[t] = "legacy"
          /\ IF NeedsFallback(manager)
             THEN /\ manager' = IF legacy
                                THEN Manager("legacy", minit.fonts,
                                             minit.weights)
                                ELSE NullManager
                  /\ minit' = [minit EXCEPT !.tried = Append(@, "legacy"),
                                            !.avail = Append(@, legacy)]
             ELSE UNCHANGED <<manager, minit>>
          /\ pc' = [pc EXCEPT ![t] = "empty"]
    /\ UNCHANGED <<cache, once, custom, rcall, ret, runner>>
    /\ UNCHANGED rt
    /\ UNCHANGED gpuVars

\* lines 75-77: the empty manager
GfmInitEmpty ==
    /\ \E t \in Threads, empty \in EmptyResults :
          /\ pc[t] = "empty"
          /\ IF NeedsFallback(manager)
             THEN /\ manager' = IF empty THEN Manager("empty", {}, {})
                                ELSE NullManager
                  /\ minit' = [minit EXCEPT !.tried = Append(@, "empty"),
                                            !.avail = Append(@, empty)]
             ELSE UNCHANGED <<manager, minit>>
          /\ pc' = [pc EXCEPT ![t] = "log"]
    /\ UNCHANGED <<cache, once, custom, rcall, ret, runner>>
    /\ UNCHANGED rt
    /\ UNCHANGED gpuVars

\* lines 78-84: the log line; the lambda returns and the flag is set
GfmInitLog ==
    /\ \E t \in Threads :
          /\ pc[t] = "log"
          /\ minit' = [minit EXCEPT !.logs = Append(@, InitLog(manager)),
                                    !.final = manager]
          /\ once' = TRUE
          /\ runner' = IF runner = t THEN 0 ELSE runner
          /\ pc' = [pc EXCEPT ![t] = "return"]
    /\ UNCHANGED <<cache, manager, custom, rcall, ret>>
    /\ UNCHANGED rt
    /\ UNCHANGED gpuVars

\* line 69: a caller blocked in std::call_once goes on once the flag is set
GfmWake ==
    /\ \E t \in Threads :
          /\ pc[t] = "wait"
          /\ once
          /\ pc' = [pc EXCEPT ![t] = "return"]
    /\ UNCHANGED <<cache, once, manager, custom, rcall, ret, runner, minit>>
    /\ UNCHANGED rt
    /\ UNCHANGED gpuVars

\* line 85: return manager
GfmReturn ==
    /\ \E t \in Threads :
          /\ pc[t] = "return"
          /\ ret' = [ret EXCEPT ![t] = manager]
          /\ pc' = [pc EXCEPT ![t] = "done"]
    /\ UNCHANGED <<cache, once, manager, custom, rcall, runner, minit>>
    /\ UNCHANGED rt
    /\ UNCHANGED gpuVars

\* the thread calls get_font_manager again later
GfmAgain ==
    /\ \E t \in Threads :
          /\ pc[t] = "done"
          /\ pc' = [pc EXCEPT ![t] = "idle"]
    /\ UNCHANGED <<cache, once, manager, custom, rcall, ret, runner, minit>>
    /\ UNCHANGED rt
    /\ UNCHANGED gpuVars

(***************************************************************************)
(* Skottie animations (skia_skottie_impl.h)                                *)
(***************************************************************************)

NoAnimation == [kind |-> "none"]

\* no animation exists; the caller's output cells hold what the caller left
\* there
NoSkottie ==
    [anim |-> NoAnimation,
     out |-> [duration |-> -1, width |-> -1, height |-> -1]]

\* byte counts handed to create
SkLengths == {-1, 0, 5}

\* sizes an animation may report as <<width, height>>
SkSizes == {<<0, 3>>, <<4, 0>>, <<4, 3>>}

SkDurations == {2}

\* positions handed to seek, in units of the whole animation
SkTimes == {-1, 0, 1, 2}

IntResult(v) == [kind |-> "int", value |-> v]

\* the observation of a Skottie call: the state before it is kept
SkCall(op, args, result, calls) ==
    [NoGpuCall EXCEPT !.op = op, !.args = args, !.result = result,
                      !.calls = calls, !.env = [before |-> sk]]

\* lines 9-21
SkottieCreate ==
    /\ \E data \in Handles, length \in SkLengths, copyOk \in BOOLEAN,
          parseOk \in BOOLEAN, size \in SkSizes, duration \in SkDurations :
          IF data = 0 \/ length <= 0
          THEN /\ gcall' = SkCall("skottie_create", <<data, length>>,
                                  NullSurface, <<>>)
               /\ sk' = sk
          ELSE IF ~copyOk
          THEN /\ gcall' = SkCall("skottie_create", <<data, length>>,
                                  NullSurface,
                                  <<<<"SkData::MakeWithCopy", "">>>>)
               /\ sk' = sk
          ELSE IF ~parseOk
          THEN /\ gcall' = SkCall("skottie_create", <<data, length>>,
                                  NullSurface,
                                  <<<<"SkData::MakeWithCopy", "">>,
                                    <<"Animation::Builder::make", "">>>>)
               /\ sk' = sk
          ELSE /\ gcall' = SkCall("skottie_create", <<data, length>>,
                                  [kind |-> "animation"],
                                  <<<<"SkData::MakeWithCopy", "">>,
                                    <<"Animation::Builder::make", "">>>>)
               /\ sk' = [sk EXCEPT !.anim =
                            [kind |-> "animation", refs |-> 1,
                             width |-> size[1], height |-> size[2],
                             duration |-> duration, t |-> -1]]
    /\ UNCHANGED <<bgraCompiled, rgba8Defined, dctx>>
    /\ UNCHANGED fontVars
    /\ UNCHANGED onceVars

\* lines 23-25; a non-null handle names the live animation
SkottieDestroy ==
    /\ \E anim \in Handles :
          /\ anim # 0 => sk.anim # NoAnimation
          /\ IF anim = 0
             THEN /\ gcall' = SkCall("skottie_destroy", <<anim>>,
                                     NullSurface, <<>>)
                  /\ sk' = sk
             ELSE /\ gcall' = SkCall("skottie_destroy", <<anim>>,
                                     NullSurface, <<<<"unref", "">>>>)
                  /\ sk' = [sk EXCEPT !.anim = NoAnimation]
    /\ UNCHANGED <<bgraCompiled, rgba8Defined, dctx>>
    /\ UNCHANGED fontVars
    /\ UNCHANGED onceVars

\* lines 27-31
SkottieGetDuration ==
    /\ \E anim \in Handles, duration \in Handles :
          /\ anim # 0 => sk.anim # NoAnimation
          /\ IF anim = 0 \/ duration = 0
             THEN /\ gcall' = SkCall("skottie_get_duration",
                                     <<anim, duration>>, IntResult(0), <<>>)
                  /\ sk' = sk
             ELSE /\ gcall' = SkCall("skottie_get_duration",
                                     <<anim, duration>>, IntResult(1),
                                     <<<<"duration", "">>>>)
                  /\ sk' = [sk EXCEPT !.out.duration = sk.anim.duration]
    /\ UNCHANGED <<bgraCompiled, rgba8Defined, dctx>>
    /\ UNCHANGED fontVars
    /\ UNCHANGED onceVars

SizeOkWidthOnly(width, height) == width > 0

\* line 38: the returned flag
SizeOk(width, height) == width > 0 /\ height > 0

\* lines 33-39
SkottieGetSize ==
    /\ \E anim \in Handles, width \in Handles, height \in Handles :
          /\ anim # 0 => sk.anim # NoAnimation
          /\ IF anim = 0 \/ width = 0 \/ height = 0
             THEN /\ gcall' = SkCall("skottie_get_size",
                                     <<anim, width, height>>, IntResult(0),
                                     <<>>)
                  /\ sk' = sk
             ELSE /\ gcall' = SkCall("skottie_get_size",
                                     <<anim, width, height>>,
                                     IntResult(IF SizeOk(sk.anim.width,
                                                         sk.anim.height)
                                               THEN 1 ELSE 0),
                                     <<<<"size", "">>>>)
                  /\ sk' = [sk EXCEPT !.out.width = sk.anim.width,
                                      !.out.height = sk.anim.height]
    /\ UNCHANGED <<bgraCompiled, rgba8Defined, dctx>>
    /\ UNCHANGED fontVars
    /\ UNCHANGED onceVars

\* lines 41-47: the position is clamped to [0, 1]
SkottieSeek ==
    /\ \E anim \in Handles, t \in SkTimes :
          /\ anim # 0 => sk.anim # NoAnimation
          /\ IF anim = 0
             THEN /\ gcall' = SkCall("skottie_seek", <<anim, t>>,
                                     NullSurface, <<>>)
                  /\ sk' = sk
             ELSE /\ gcall' = SkCall("skottie_seek", <<anim, t>>,
                                     NullSurface, <<<<"seek", "">>>>)
                  /\ sk' = [sk EXCEPT !.anim.t = Clamp(t, 0, 1)]
    /\ UNCHANGED <<bgraCompiled, rgba8Defined, dctx>>
    /\ UNCHANGED fontVars
    /\ UNCHANGED onceVars

\* lines 49-54
SkottieRender ==
    /\ \E anim \in Handles, canvas \in Handles, width \in Dims,
          height \in Dims :
          /\ anim # 0 => sk.anim # NoAnimation
          /\ gcall' = SkCall("skottie_render",
                             <<anim, canvas, width, height>>, NullSurface,
                             IF anim = 0 \/ canvas = 0 \/ width <= 0
                                    \/ height <= 0
                             THEN <<>>
                             ELSE <<<<"render", "">>>>)
          /\ sk' = sk
    /\ UNCHANGED <<bgraCompiled, rgba8Defined, dctx>>
    /\ UNCHANGED fontVars
    /\ UNCHANGED onceVars

(***************************************************************************)
(* resolve_typeface called from several threads                            *)
(***************************************************************************)

\* arguments of the concurrent calls: two families and two slants give four
\* keys
RaceFamilies == {NullStr, "Brand"}

RaceWeights == {400}

RaceStyles == {0, 1}

\* the font manager the threads find; it was initialized by an earlier call
RaceManagers ==
    {Manager("ndk", {"Brand", "sans-serif"}, {400}), Manager("empty", {}, {})}

\* a host that serializes the calls lets one thread in at a time
MayEnter(t) == rt.serial => \A u \in Threads : rt.th[u].pc = "idle"

\* lines 97-98: entry, with the clamped weight and the family name as locals
RaceBegin ==
    /\ \E t \in Threads, family \in RaceFamilies, weightIn \in RaceWeights,
          style \in RaceStyles :
          /\ rt.th[t].pc = "idle"
          /\ MayEnter(t)
          /\ rt' = [rt EXCEPT !.th[t] =
                        [pc |-> "check",
                         family |-> FamilyName(family),
                         weight |-> Clamp(weightIn, MinWeight, MaxWeight),
                         style |-> style,
                         typeface |-> NoTypeface,
                         done |-> FALSE]]
    /\ UNCHANGED fontVars
    /\ UNCHANGED gpuVars
    /\ UNCHANGED <<pc, ret, runner, minit>>

\* line 99: the cache test, made without any lock
RaceCheck ==
    /\ \E t \in Threads :
          LET l == rt.th[t]
          IN /\ l.pc = "check"
             /\ rt' = [rt EXCEPT !.th[t].pc =
                           IF CacheHit(cache, l.family, l.weight, l.weight,
                                       l.style)
                           THEN "hit" ELSE "lookup"]
    /\ UNCHANGED fontVars
    /\ UNCHANGED gpuVars
    /\ UNCHANGED <<pc, ret, runner, minit>>

\* line 100: return cache.typeface, read after the test
RaceHitReturn ==
    /\ \E t \in Threads :
          /\ rt.th[t].pc = "hit"
          /\ rt' = [rt EXCEPT !.th[t].pc = "idle",
                              !.th[t].typeface = cache.typeface,
                              !.th[t].done = TRUE]
    /\ UNCHANGED fontVars
    /\ UNCHANGED gpuVars
    /\ UNCHANGED <<pc, ret, runner, minit>>

\* lines 103-130: the chain, which works on locals and the font manager
RaceLookup ==
    /\ \E t \in Threads :
          LET l == rt.th[t]
              m == get_font_manager(FALSE, FALSE, FALSE, {}, {}).manager
              found == ResolveChain(l.family, l.family, m, l.weight,
                                    Slant(l.style))
          IN /\ l.pc = "lookup"
             /\ rt' = [rt EXCEPT !.th[t].pc = "family",
                                 !.th[t].typeface = found.tf]
    /\ UNCHANGED fontVars
    /\ UNCHANGED gpuVars
    /\ UNCHANGED <<pc, ret, runner, minit>>

RaceStoreNoTypeface(c, field, l) ==
    IF field = "typeface" THEN c ELSE [c EXCEPT ![field] = l[field]]

\* one of the four assignments of lines 131-134
RaceStore(c, field, l) == [c EXCEPT ![field] = l[field]]

\* thread t makes the assignment it has reached and moves to the next one
RaceWrite(t, field, next) ==
    /\ rt.th[t].pc = field
    /\ cache' = RaceStore(cache, field, rt.th[t])
    /\ rt' = [rt EXCEPT !.th[t].pc = next, !.th[t].done = (next = "idle")]

\* line 131
RaceWriteFamily ==
    /\ \E t \in Threads : RaceWrite(t, "family", "weight")
    /\ UNCHANGED <<once, manager, custom, rcall>>
    /\ UNCHANGED gpuVars
    /\ UNCHANGED <<pc, ret, runner, minit>>

\* line 132
RaceWriteWeight ==
    /\ \E t \in Threads : RaceWrite(t, "weight", "style")
    /\ UNCHANGED <<once, manager, custom, rcall>>
    /\ UNCHANGED gpuVars
    /\ UNCHANGED <<pc, ret, runner, minit>>

\* line 133
RaceWriteStyle ==
    /\ \E t \in Threads : RaceWrite(t, "style", "typeface")
    /\ UNCHANGED <<once, manager, custom, rcall>>
    /\ UNCHANGED gpuVars
    /\ UNCHANGED <<pc, ret, runner, minit>>

\* lines 134-135
RaceWriteTypeface ==
    /\ \E t \in Threads : RaceWrite(t, "typeface", "idle")
    /\ UNCHANGED <<once, manager, custom, rcall>>
    /\ UNCHANGED gpuVars
    /\ UNCHANGED <<pc, ret, runner, minit>>

(***************************************************************************)
(* Specifications                                                          *)
(***************************************************************************)

InitFont ==
    /\ cache = [family |-> "", weight |-> -1, style |-> -1,
                typeface |-> NoTypeface]
    /\ once = FALSE
    /\ manager = NullManager
    /\ custom = {}
    /\ rcall = NoCall

Init ==
    /\ InitFont
    /\ InitOnce
    /\ bgraCompiled = TRUE
    /\ rgba8Defined = TRUE
    /\ gcall = NoGpuCall
    /\ dctx = NoDevice
    /\ sk = NoSkottie

Next ==
    \/ ResolveTypeface
    \/ RegisterCustom

Spec == Init /\ [][Next]_vars

\* the GPU bridge on its own: the resolver is left untouched
InitGpu ==
    /\ cache = [family |-> "", weight |-> -1, style |-> -1,
                typeface |-> NoTypeface]
    /\ once = FALSE
    /\ manager = NullManager
    /\ custom = {}
    /\ rcall = NoCall
    /\ bgraCompiled \in BOOLEAN
    /\ rgba8Defined \in BOOLEAN
    /\ gcall = NoGpuCall
    /\ dctx = NoDevice
    /\ sk = NoSkottie
    /\ InitOnce

NextGpu ==
    \/ SurfaceCreateGL
    \/ SurfaceCreateVulkan
    \/ SurfaceCreateOffscreenGL
    \/ SurfaceCreateOffscreenVulkan

SpecGpu == InitGpu /\ [][NextGpu]_vars

\* the life of one context of either build, from creation to destruction
NextCtx ==
    \/ ContextCreateGL
    \/ ContextCreateVulkan
    \/ ContextCreateMetal
    \/ SurfaceCreateOffscreenGL
    \/ SurfaceCreateOffscreenVulkan
    \/ SurfaceCreateMetal
    \/ SurfaceCreateOffscreenMetal
    \/ Draw
    \/ GpuComplete
    \/ GLBindFramebuffer
    \/ SurfaceFlushGL
    \/ SurfaceFlushVulkan
    \/ ContextPurgeGL
    \/ ContextPurgeVulkan
    \/ VkGetProc
    \/ ContextDestroy

SpecCtx == Init /\ [][NextCtx]_vars

\* get_font_manager called concurrently
NextOnce ==
    \/ GfmEnter
    \/ GfmInitNDK
    \/ GfmInitLegacy
    \/ GfmInitEmpty
    \/ GfmInitLog
    \/ GfmWake
    \/ GfmReturn
    \/ GfmAgain

SpecOnce == Init /\ [][NextOnce]_vars

\* the font manager exists; the host may or may not serialize the calls
InitRace ==
    /\ cache = [family |-> "", weight |-> -1, style |-> -1,
                typeface |-> NoTypeface]
    /\ once = TRUE
    /\ manager \in RaceManagers
    /\ custom = {}
    /\ rcall = NoCall
    /\ bgraCompiled = TRUE
    /\ rgba8Defined = TRUE
    /\ gcall = NoGpuCall
    /\ dctx = NoDevice
    /\ sk = NoSkottie
    /\ pc = [t \in Threads |-> "idle"]
    /\ ret = [t \in Threads |-> NoReturn]
    /\ runner = 0
    /\ minit = NoInitRun
    /\ rt \in {[NoRace EXCEPT !.serial = b] : b \in BOOLEAN}

\* resolve_typeface called concurrently
NextRace ==
    \/ RaceBegin
    \/ RaceCheck
    \/ RaceHitReturn
    \/ RaceLookup
    \/ RaceWriteFamily
    \/ RaceWriteWeight
    \/ RaceWriteStyle
    \/ RaceWriteTypeface

SpecRace == InitRace /\ [][NextRace]_vars

\* the life of one animation
NextSkottie ==
    \/ SkottieCreate
    \/ SkottieDestroy
    \/ SkottieGetDuration
    \/ SkottieGetSize
    \/ SkottieSeek
    \/ SkottieRender

SpecSkottie == Init /\ [][NextSkottie]_vars

(***************************************************************************)
(* Properties of the typeface resolver (checked under Spec)                *)
(***************************************************************************)

IsResolve == rcall.op = "resolve"

\* the lookups of the last resolve call, without the enumeration calls
Lookups ==
    SelectSeq(rcall.calls,
              LAMBDA q : q.fn \in {"lookup_custom_typeface",
                                   "matchFamilyStyle"})

\* min(max(w, 100), 900)
MinMax(w) ==
    LET lo == IF w > 100 THEN w ELSE 100
    IN IF lo < 900 THEN lo ELSE 900

\* C1 as stated: a cache hit is decided by key equality alone; when the
\* previous resolve call had the same key, this call performs no custom or
\* font-manager lookup, whether or not the earlier resolution found a
\* typeface.
C1_KeyEqualityAlone ==
    (IsResolve /\ rcall.repeat) => (rcall.hit /\ rcall.calls = <<>>)

\* C1 amended: a cache hit needs key equality and a cached typeface; when the
\* previous resolve call had the same key and produced a typeface, this call
\* performs no lookup and returns the slot's content; when it produced
\* nothing, the lookup is made again.
C1_HitNeedsTypeface ==
    (IsResolve /\ rcall.repeat) =>
        IF rcall.prevFound
        THEN /\ rcall.hit
             /\ rcall.calls = <<>>
             /\ rcall.logs = <<>>
             /\ rcall.result = cache.typeface
             /\ rcall.result # NoTypeface
        ELSE /\ ~rcall.hit
             /\ Lookups # <<>>

C1_Witness ==
    IsResolve /\ rcall.repeat /\ rcall.prevFound /\ rcall.hit

\* C4: a resolve call for a family that has a custom typeface registered at
\* the time of the call returns that custom typeface, whatever the cache
\* holds.
C4_CustomAlwaysWins ==
    (IsResolve /\ rcall.registered) =>
        rcall.result = CustomTypeface(rcall.family)

\* what the lookup q of the last resolve call yielded
Answer(q) ==
    IF q.fn = "lookup_custom_typeface"
    THEN IF rcall.registered THEN CustomTypeface(q.name) ELSE NoTypeface
    ELSE matchFamilyStyle(manager, q.name, q.weight, q.slant)

\* the documented chain for the last resolve call
DocumentedChain ==
    LET w == rcall.key[2]
        sl == IF rcall.style = 1 THEN "italic" ELSE "upright"
    IN <<Query("lookup_custom_typeface", rcall.family, 0, "")>>
       \o (IF rcall.key[1] # ""
           THEN <<Query("matchFamilyStyle", rcall.key[1], w, sl)>>
           ELSE <<>>)
       \o <<Query("matchFamilyStyle", NullStr, w, sl),
            Query("matchFamilyStyle", "sans-serif", w, sl)>>
       \o (IF countFamilies(manager) > 0
           THEN <<Query("matchFamilyStyle", getFamilyName(manager, 0), w, sl)>>
           ELSE <<>>)
       \o <<Query("matchFamilyStyle", "sans-serif", 400, sl)>>

\* C5: on a cache miss the lookups made are a prefix of the documented chain
\* (custom, family, no family, sans-serif, family 0, sans-serif at 400), every
\* lookup but the last yielded nothing, the result is what the last lookup
\* yielded, and an absent result means the whole chain was tried.
C5_ChainOrder ==
    (IsResolve /\ ~rcall.hit) =>
        LET n == Len(Lookups)
        IN /\ n >= 1
           /\ n <= Len(DocumentedChain)
           /\ Lookups = SubSeq(DocumentedChain, 1, n)
           /\ \A i \in 1..(n - 1) : Answer(Lookups[i]) = NoTypeface
           /\ rcall.result = Answer(Lookups[n])
           /\ (rcall.result = NoTypeface /\ manager # NullManager)
                 => n = Len(DocumentedChain)

C5_Witness ==
    /\ IsResolve
    /\ ~rcall.hit
    /\ rcall.key[2] # 400
    /\ rcall.result = SysTypeface("sans-serif", 400, "upright")
    /\ Len(Lookups) >= 5

\* the weight clauses of C6: the cache key and every font-manager lookup use
\* min(max(w, 100), 900); only the final sans-serif fallback asks for 400
C6_ClampedEverywhere ==
    IsResolve =>
        /\ rcall.key[2] = MinMax(rcall.weightIn)
        /\ rcall.key[2] >= 100
        /\ rcall.key[2] <= 900
        /\ \A i \in 1..Len(rcall.calls) :
              rcall.calls[i].fn = "matchFamilyStyle" =>
                 \/ rcall.calls[i].weight = MinMax(rcall.weightIn)
                 \/ /\ i = Len(rcall.calls)
                    /\ rcall.calls[i].name = "sans-serif"
                    /\ rcall.calls[i].weight = 400
        /\ ~rcall.hit => cache.weight = MinMax(rcall.weightIn)

\* C6 as stated: the weight is clamped into [100, 900] for the lookup style
\* and the cache key, and a resolve with weight 50 followed by a resolve of
\* the same family and slant with weight 100 is a cache hit.
C6_ClampAndHit ==
    /\ C6_ClampedEverywhere
    /\ (IsResolve /\ rcall.repeat /\ rcall.prevWeightIn = 50
            /\ rcall.weightIn = 100) => rcall.hit

\* C6 amended: the weight is clamped into [100, 900] for the lookup style and
\* the cache key, and a resolve with weight 50 followed by a resolve of the
\* same family and slant with weight 100 is a cache hit when the first
\* resolve produced a typeface, and a fresh lookup with weight 100 otherwise.
C6_ClampAndHitIfFound ==
    /\ C6_ClampedEverywhere
    /\ (IsResolve /\ rcall.repeat /\ rcall.prevWeightIn = 50
            /\ rcall.weightIn = 100) => (rcall.hit <=> rcall.prevFound)

C6_Witness ==
    /\ IsResolve
    /\ rcall.repeat
    /\ rcall.prevWeightIn = 50
    /\ rcall.weightIn = 100
    /\ rcall.hit

Warnings == SelectSeq(rcall.logs, LAMBDA l : l.level = "WARN")

\* C10: a resolve call logs one warning carrying (family or empty, clamped
\* weight, slant argument) exactly when it returns an absent typeface, and
\* the absent typeface is an ordinary return value that is cached like any
\* other miss.
C10_WarnOnlyWhenAbsent ==
    IsResolve =>
        IF rcall.result = NoTypeface
        THEN /\ ~rcall.hit
             /\ Len(Warnings) = 1
             /\ Warnings[1].args =
                   <<IF rcall.family \in {NullStr, ""} THEN "" ELSE rcall.family,
                     MinMax(rcall.weightIn), rcall.style>>
             /\ cache.typeface = NoTypeface
        ELSE Warnings = <<>>

C10_Witness ==
    /\ IsResolve
    /\ rcall.result = NoTypeface
    /\ manager # NullManager
    /\ Len(Lookups) = Len(DocumentedChain)

\* C18: the cache is one slot; after every resolve call the slot's key is
\* that call's normalized key (family or empty, clamped weight, slant
\* argument) and the slot's typeface is the value the call returned, absent or
\* not; a call with another key replaces the entry, so a hit is possible only
\* for the key of the call before it.
C18_SlotHoldsLastCall ==
    IsResolve =>
        /\ DOMAIN cache = {"family", "weight", "style", "typeface"}
        /\ cache.family = (IF rcall.family \in {NullStr, ""} THEN ""
                            ELSE rcall.family)
        /\ cache.weight = MinMax(rcall.weightIn)
        /\ cache.style = rcall.style
        /\ cache.typeface = rcall.result
        /\ rcall.hit => rcall.repeat

C18_Witness ==
    /\ IsResolve
    /\ ~rcall.hit
    /\ ~rcall.repeat
    /\ rcall.prevFound
    /\ rcall.result = NoTypeface
    /\ cache.typeface = NoTypeface

\* the last call had a null or an empty family and the resolve call before
\* it had the other of the two, at the same weight and slant argument
NullEmptySwap ==
    /\ IsResolve
    /\ rcall.family \in {NullStr, ""}
    /\ rcall.prevFamily \in {NullStr, ""} \ {rcall.family}
    /\ rcall.repeat
    /\ rcall.prevWeightIn = rcall.weightIn

\* a resolve call with a null or an empty family uses the empty name as key
\* and, on a miss, asks no family-constrained query: after the custom lookup
\* the first font-manager query is the no-family style match
NoFamilyConstraint ==
    (IsResolve /\ rcall.family \in {NullStr, ""}) =>
        /\ rcall.key[1] = ""
        /\ \A i \in DOMAIN rcall.calls :
               rcall.calls[i].fn = "matchFamilyStyle" =>
                   rcall.calls[i].name # ""
        /\ ~rcall.hit =>
               /\ Len(rcall.calls) >= 2
               /\ rcall.calls[1].fn = "lookup_custom_typeface"
               /\ rcall.calls[2] = Query("matchFamilyStyle", NullStr,
                                         rcall.key[2], Slant(rcall.style))

\* C21 as stated: a null and an empty family have the same key, a resolve
\* with one followed by a resolve with the other at the same weight and slant
\* is a cache hit, and neither asks the family-constrained query.
C21_NullEmptyAlwaysHit ==
    /\ NoFamilyConstraint
    /\ NullEmptySwap => rcall.hit

\* C21, amended: a null and an empty family have the same key and neither
\* asks the family-constrained query; a resolve with one followed by a resolve
\* with the other at the same weight and slant is a cache hit exactly when the
\* first one produced a typeface, and then returns it without any lookup.
C21_NullEmptyHitIfFound ==
    /\ NoFamilyConstraint
    /\ NullEmptySwap =>
           /\ rcall.hit <=> rcall.prevFound
           /\ rcall.hit => (rcall.calls = <<>> /\ rcall.result # NoTypeface)

C21_Witness ==
    /\ NullEmptySwap
    /\ rcall.family = ""
    /\ rcall.hit
    /\ rcall.result # NoTypeface

C21_WitnessMiss ==
    /\ NullEmptySwap
    /\ ~rcall.hit
    /\ ~rcall.prevFound

(***************************************************************************)
(* Properties of the GPU bridge (checked under SpecGpu)                    *)
(***************************************************************************)

\* a GL wrapped-surface call that got past the argument check
IsGLCreate ==
    /\ gcall.op = "surface_create_gl"
    /\ gcall.args[1] # 0
    /\ gcall.args[2] > 0
    /\ gcall.args[3] > 0

\* the documented order of the color formats
DocumentedFormats ==
    <<GL_RGBA8, "GL_RGBA">>
    \o (IF bgraCompiled THEN <<"GL_BGRA8_EXT">> ELSE <<>>)
    \o <<"GL_RGB565">>

Accepted(format, stencil) == <<format, stencil>> \in gcall.env.accepts

AttemptFailed(i) ==
    ~Accepted(gcall.attempts[i].format, gcall.attempts[i].stencil)

\* C2: with a non-null context and positive dimensions the formats are tried
\* in the order RGBA8, legacy RGBA, BGRA8 (when compiled in), RGB565; every
\* attempt but the last failed, a returned surface has the format of the last
\* attempt, and when the driver accepts some format at the stencil depth read
\* from GL the surface has the earliest such format in that order.
C2_FirstAcceptedFormat ==
    IsGLCreate =>
        LET att == gcall.attempts
            n == Len(DocumentedFormats)
            s == gcall.env.stencil
            ok == {i \in 1..n : Accepted(DocumentedFormats[i], s)}
        IN /\ Len(att) >= 1
           /\ \A i \in 1..Len(att) :
                 att[i].format = DocumentedFormats[((i - 1) % n) + 1]
           /\ \A i \in 1..(Len(att) - 1) : AttemptFailed(i)
           /\ gcall.result # NullSurface =>
                 /\ gcall.result.format = att[Len(att)].format
                 /\ gcall.result.color = att[Len(att)].color
                 /\ gcall.result.stencil = att[Len(att)].stencil
                 /\ ~AttemptFailed(Len(att))
           /\ ok # {} =>
                 LET first == CHOOSE i \in ok : \A j \in ok : i <= j
                 IN /\ gcall.result # NullSurface
                    /\ gcall.result.format = DocumentedFormats[first]
                    /\ gcall.result.stencil = s
                    /\ Len(att) = first

C2_Witness ==
    /\ IsGLCreate
    /\ gcall.result # NullSurface
    /\ gcall.result.format = "GL_RGB565"
    /\ gcall.result.stencil = gcall.env.stencil
    /\ Len(gcall.attempts) = Len(DocumentedFormats)
    /\ bgraCompiled

\* C3: attempts at stencil 0 come only after every format has failed at a
\* non-zero stencil depth read from GL; then the whole list is tried again at
\* stencil 0 in the same order, each entry once, until one succeeds; with a
\* stencil depth of 0 there is one pass only.
C3_StencilRetry ==
    IsGLCreate =>
        LET att == gcall.attempts
            n == Len(DocumentedFormats)
            s == gcall.env.stencil
        IN /\ Len(att) <= (IF s = 0 THEN n ELSE 2 * n)
           /\ \A i \in 1..Len(att) :
                 att[i].stencil = (IF i <= n THEN s ELSE 0)
           /\ Len(att) > n =>
                 /\ s # 0
                 /\ \A i \in 1..n : AttemptFailed(i)
                 /\ \A i \in (n + 1)..Len(att) :
                       att[i].format = DocumentedFormats[i - n]
           /\ (s # 0 /\ \A i \in 1..n : ~Accepted(DocumentedFormats[i], s))
                 => Len(att) > n
           /\ (s # 0 /\ gcall.result = NullSurface) => Len(att) = 2 * n

C3_Witness ==
    /\ IsGLCreate
    /\ gcall.env.stencil # 0
    /\ gcall.result # NullSurface
    /\ gcall.result.stencil = 0
    /\ Len(gcall.attempts) = 2 * Len(DocumentedFormats)

SurfaceCreators ==
    {"surface_create_gl", "surface_create_vulkan",
     "surface_create_offscreen_gl", "surface_create_offscreen_vulkan"}

BadCreateArgs ==
    gcall.args[1] = 0 \/ gcall.args[2] <= 0 \/ gcall.args[3] <= 0

\* C7: a surface-creation call (GL wrapped, Vulkan wrapped, GL offscreen,
\* Vulkan offscreen) with a null context or a non-positive width or height
\* returns absent, emits no log, reads no GL state and attempts no wrap or
\* allocation.
C7_BadArgsNoEffects ==
    (gcall.op \in SurfaceCreators /\ BadCreateArgs) =>
        /\ gcall.result = NullSurface
        /\ gcall.logs = <<>>
        /\ gcall.glReads = <<>>
        /\ gcall.attempts = <<>>
        /\ gcall.calls = <<>>

C7_Witness ==
    /\ gcall.op = "surface_create_offscreen_vulkan"
    /\ gcall.args[1] # 0
    /\ gcall.args[2] = 0
    /\ gcall.args[3] > 0
    /\ gcall.result = NullSurface

\* C8: Vulkan context creation with a null getInstanceProcAddr returns null,
\* emits exactly one error log and makes no Vulkan call.
C8_NullProcAddrNoCalls ==
    (gcall.op = "context_create_vulkan" /\ gcall.args[6] = 0) =>
        /\ gcall.result = NullContext
        /\ gcall.calls = <<>>
        /\ Len(gcall.logs) = 1
        /\ gcall.logs[1].level = "ERROR"

C8_Witness ==
    /\ gcall.op = "context_create_vulkan"
    /\ gcall.args[6] = 0
    /\ gcall.args[1] # 0
    /\ gcall.args[3] # 0

\* C9: a GL wrapped-surface call that made attempts returns null exactly when
\* every attempted (format, stencil) combination failed; then it emits one
\* error log carrying the framebuffer id, the sample count, the stencil depth
\* read from GL (not the forced 0), the version and the renderer string, and
\* a successful call logs nothing.
C9_FailureLog ==
    IsGLCreate =>
        /\ gcall.result = NullSurface
              <=> \A i \in 1..Len(gcall.attempts) : AttemptFailed(i)
        /\ IF gcall.result = NullSurface
           THEN /\ Len(gcall.logs) = 1
                /\ gcall.logs[1].level = "ERROR"
                /\ gcall.logs[1].args[1] = gcall.env.fbo
                /\ gcall.logs[1].args[2] = gcall.env.samples
                /\ gcall.logs[1].args[3] = gcall.env.stencil
                /\ gcall.logs[1].args[4] =
                      (IF gcall.env.strings[1] = NullStr THEN "unknown"
                       ELSE gcall.env.strings[1])
                /\ gcall.logs[1].args[5] =
                      (IF gcall.env.strings[2] = NullStr THEN "unknown"
                       ELSE gcall.env.strings[2])
           ELSE gcall.logs = <<>>

C9_Witness ==
    /\ IsGLCreate
    /\ gcall.result = NullSurface
    /\ gcall.env.stencil # 0
    /\ gcall.env.fbo # gcall.env.samples
    /\ gcall.env.strings[1] # NullStr
    /\ Len(gcall.attempts) = 2 * Len(DocumentedFormats)

IsOffscreenCreate ==
    gcall.op \in {"surface_create_offscreen_gl",
                  "surface_create_offscreen_vulkan"}

\* the surface both offscreen creators are documented to return
DocumentedOffscreen ==
    [kind |-> "offscreen",
     backend |-> IF gcall.op = "surface_create_offscreen_gl" THEN "gl"
                 ELSE "vulkan",
     width |-> gcall.args[2], height |-> gcall.args[3],
     color |-> "kRGBA_8888", alpha |-> "premul", samples |-> 0,
     budgeted |-> FALSE, origin |-> "top-left"]

\* C14 as stated: with a live context and positive dimensions, offscreen
\* creation (GL and Vulkan) always succeeds: one allocation attempt, and the
\* result is a surface of exactly the requested size, 8-bit RGBA, premultiplied,
\* top-left, sample count 0, not budgeted.
C14_AlwaysSucceeds ==
    (IsOffscreenCreate /\ ~BadCreateArgs) =>
        /\ Len(gcall.attempts) = 1
        /\ gcall.result = DocumentedOffscreen

\* C14, amended: with a live context and positive dimensions, offscreen
\* creation makes exactly one allocation attempt of the requested size; when
\* that allocation succeeds the result is the documented surface, and when it
\* fails the result is null, with no second attempt.
C14_SucceedsIfAllocated ==
    (IsOffscreenCreate /\ ~BadCreateArgs) =>
        /\ Len(gcall.attempts) = 1
        /\ gcall.attempts[1].alloc = "RenderTarget"
        /\ gcall.attempts[1].width = gcall.args[2]
        /\ gcall.attempts[1].height = gcall.args[3]
        /\ gcall.result = IF gcall.attempts[1].ok THEN DocumentedOffscreen
                          ELSE NullSurface

C14_Witness ==
    /\ gcall.op = "surface_create_offscreen_vulkan"
    /\ ~BadCreateArgs
    /\ gcall.result # NullSurface
    /\ gcall.result.width > gcall.result.height

IsVkCreate == gcall.op = "surface_create_vulkan"

\* C17: Vulkan wrapped-surface creation rejects a null image (like any other
\* bad argument) with no wrap attempt and no log; otherwise it makes exactly
\* one wrap attempt with the supplied image and format (optimal tiling,
\* undefined layout, one sample, one mip level, queue family ignored); if that
\* attempt fails the result is null and one error carrying width, height and
\* format is logged; if it succeeds nothing is logged.
C17_SingleWrapAttempt ==
    IsVkCreate =>
        IF BadCreateArgs \/ gcall.args[4] = 0
        THEN /\ gcall.attempts = <<>>
             /\ gcall.logs = <<>>
             /\ gcall.result = NullSurface
        ELSE /\ Len(gcall.attempts) = 1
             /\ gcall.attempts[1].image = gcall.args[4]
             /\ gcall.attempts[1].format = gcall.args[5]
             /\ gcall.attempts[1].tiling = "OPTIMAL"
             /\ gcall.attempts[1].layout = "UNDEFINED"
             /\ gcall.attempts[1].samples = 1
             /\ gcall.attempts[1].levels = 1
             /\ gcall.attempts[1].queueFamily = "IGNORED"
             /\ IF gcall.result = NullSurface
                THEN /\ Len(gcall.logs) = 1
                     /\ gcall.logs[1].level = "ERROR"
                     /\ gcall.logs[1].args = <<gcall.args[2], gcall.args[3],
                                               gcall.args[5]>>
                ELSE gcall.logs = <<>>

C17_Witness ==
    /\ IsVkCreate
    /\ ~BadCreateArgs
    /\ gcall.args[4] # 0
    /\ gcall.result = NullSurface
    /\ Len(gcall.logs) = 1

C17_WitnessNullImage ==
    /\ IsVkCreate
    /\ ~BadCreateArgs
    /\ gcall.args[4] = 0
    /\ gcall.attempts = <<>>

(***************************************************************************)
(* Properties of the context lifecycle (checked under SpecCtx)             *)
(***************************************************************************)

\* the last call was a flush on a non-null context and a non-null surface
IsFlush(op) ==
    gcall.op = op /\ gcall.args[1] # 0 /\ gcall.args[2] # 0

\* C12: a flush with non-null inputs submits the recorded work. The Vulkan
\* variant asks for CPU synchronisation, so on return no work is recorded or
\* in flight: whatever was pending or submitted has completed. The GL variant
\* asks for none: on return pending work is submitted, not completed.
C12_FlushSubmits ==
    /\ IsFlush("surface_flush_vulkan") =>
           /\ gcall.calls = <<<<"flushAndSubmit", "GrSyncCpu::kYes">>>>
           /\ gcall.env.sync
           /\ gcall.env.before # "none" => gcall.env.after = "completed"
           /\ dctx.work = gcall.env.after
           /\ dctx.work \notin {"pending", "submitted"}
    /\ IsFlush("surface_flush_gl") =>
           /\ gcall.calls = <<<<"flushAndSubmit", "GrSyncCpu::kNo">>>>
           /\ ~gcall.env.sync
           /\ gcall.env.before = "pending" => gcall.env.after = "submitted"
           /\ gcall.env.before # "pending" =>
                  gcall.env.after = gcall.env.before
           /\ dctx.work # "pending"

C12_Witness ==
    /\ IsFlush("surface_flush_vulkan")
    /\ gcall.env.before = "pending"
    /\ dctx.work = "completed"

C12_WitnessGL ==
    /\ IsFlush("surface_flush_gl")
    /\ gcall.env.before = "pending"
    /\ dctx.work = "submitted"

\* a flush, destroy or purge call that was handed a null handle
NullHandleCall(g) ==
    \/ /\ g.op \in {"surface_flush_gl", "surface_flush_vulkan"}
       /\ (g.args[1] = 0 \/ g.args[2] = 0)
    \/ /\ g.op \in {"context_destroy", "context_purge_resources_gl",
                     "context_purge_resources_vulkan"}
       /\ g.args[1] = 0

\* C13: a flush with a null context or a null surface, a destroy of a null
\* context and a purge of a null context make no GPU call, log nothing and
\* leave the context, its work and pools, the typeface cache and the font
\* manager as they were.
C13_NullHandlesNoOp ==
    [][(gcall' # gcall /\ NullHandleCall(gcall')) =>
           /\ gcall'.calls = <<>>
           /\ gcall'.logs = <<>>
           /\ dctx' = dctx
           /\ UNCHANGED fontVars
           /\ UNCHANGED <<sk, bgraCompiled, rgba8Defined>>]_vars

C13_Witness ==
    /\ gcall.op = "surface_flush_vulkan"
    /\ gcall.args = <<1, 0>>
    /\ gcall.calls = <<>>
    /\ dctx.kind = "vulkan"
    /\ dctx.work = "pending"

IsPurge(op) == gcall.op = op /\ gcall.args[1] # 0

ResetThenFree == <<<<"resetContext", "">>, <<"freeGpuResources", "">>>>

\* C15 as stated: a purge of a non-null context, GL or Vulkan, resets the
\* cached context state and then frees the resource pools.
C15_BothResetThenFree ==
    (IsPurge("context_purge_resources_gl")
         \/ IsPurge("context_purge_resources_vulkan")) =>
        gcall.calls = ResetThenFree

\* C15, amended: the GL purge of a non-null context resets the cached context
\* state and then frees the resource pools; the Vulkan purge only frees the
\* resource pools and makes no reset call.
C15_GLResetsVulkanOnlyFrees ==
    /\ IsPurge("context_purge_resources_gl") =>
           /\ gcall.calls = ResetThenFree
           /\ ~dctx.dirty
           /\ dctx.pools = 0
    /\ IsPurge("context_purge_resources_vulkan") =>
           /\ gcall.calls = <<<<"freeGpuResources", "">>>>
           /\ dctx.pools = 0
           /\ dctx.dirty = gcall.env.before.dirty

C15_Witness ==
    /\ IsPurge("context_purge_resources_vulkan")
    /\ gcall.env.before.pools = 1
    /\ dctx.pools = 0

C15_WitnessGL ==
    /\ IsPurge("context_purge_resources_gl")
    /\ gcall.env.before.pools = 1
    /\ gcall.env.before.dirty
    /\ ~dctx.dirty

MetalOps ==
    {"context_create_metal", "surface_create_metal",
     "surface_create_offscreen_metal"}

\* C16: creating a Metal context, a Metal wrapped surface or a Metal
\* offscreen surface returns null whatever the arguments, makes no GPU call
\* or attempt, logs nothing and changes no state.
C16_MetalAlwaysNull ==
    [][(gcall' # gcall /\ gcall'.op \in MetalOps) =>
           /\ gcall'.result = NullContext
           /\ gcall'.result = NullSurface
           /\ gcall'.calls = <<>>
           /\ gcall'.attempts = <<>>
           /\ gcall'.glReads = NoGpuCall.glReads
           /\ gcall'.logs = <<>>
           /\ dctx' = dctx
           /\ UNCHANGED fontVars
           /\ UNCHANGED <<sk, bgraCompiled, rgba8Defined>>]_vars

C16_Witness ==
    /\ gcall.op = "context_create_metal"
    /\ gcall.args = <<1, 1>>
    /\ gcall.result = NullContext
    /\ dctx.kind # "none"

IsGetProc == gcall.op = "vk_get_proc"

\* the instance the documented lookup hands to the instance-level resolver
DocumentedInstance ==
    IF gcall.args[1] = 0 /\ gcall.args[2] # 0 THEN gcall.env.captured
    ELSE gcall.args[1]

\* C19: the resolver asks the device-level entry point first when the device
\* is non-null and that entry point was obtained, and returns its answer when
\* non-null; in every other case it asks the instance-level entry point with
\* the supplied instance, or with the instance captured at context creation
\* when the supplied instance is null and the device is not, and returns that
\* answer; with both null the instance-level call gets a null instance.
C19_ThreeTierLookup ==
    IsGetProc =>
        LET name == gcall.env.name
            dev == gcall.args[2]
            devCall == [fn |-> "vkGetDeviceProcAddr", handle |-> dev,
                        name |-> name]
            instCall == [fn |-> "vkGetInstanceProcAddr",
                         handle |-> DocumentedInstance, name |-> name]
            instAnswer == IF gcall.env.instKnows
                          THEN [kind |-> "fn", level |-> "instance",
                                handle |-> DocumentedInstance, name |-> name]
                          ELSE NullFn
        IN  IF dev # 0 /\ gcall.env.hasDevProc
            THEN IF gcall.env.devKnows
                 THEN /\ gcall.attempts = <<devCall>>
                      /\ gcall.result = [kind |-> "fn", level |-> "device",
                                         handle |-> dev, name |-> name]
                 ELSE /\ gcall.attempts = <<devCall, instCall>>
                      /\ gcall.result = instAnswer
            ELSE /\ gcall.attempts = <<instCall>>
                 /\ gcall.result = instAnswer
                 /\ (gcall.args[1] = 0 /\ dev = 0) => instCall.handle = 0

C19_Witness ==
    /\ IsGetProc
    /\ gcall.args[1] = 0
    /\ gcall.args[2] # 0
    /\ gcall.env.captured # 0
    /\ gcall.env.hasDevProc
    /\ Len(gcall.attempts) = 2
    /\ gcall.attempts[2].handle = gcall.env.captured
    /\ gcall.result # NullFn

C19_WitnessSupplied ==
    /\ IsGetProc
    /\ gcall.args[1] = 2
    /\ gcall.args[2] # 0
    /\ gcall.env.captured = 1
    /\ Len(gcall.attempts) = 2
    /\ gcall.attempts[2].handle = 2

(***************************************************************************)
(* Properties of the font-manager singleton (checked under SpecOnce)       *)
(***************************************************************************)

\* threads that are past std::call_once
PastOnce == {t \in Threads : pc[t] \in {"return", "done"}}

\* threads inside the initialization body
InBody == {t \in Threads : pc[t] \in {"ndk", "legacy", "empty", "log"}}

\* C11: under every interleaving of concurrent get_font_manager calls the
\* initialization body is executed at most once and by one thread at a time,
\* no caller gets past call_once before the body has finished, the manager
\* does not change afterwards, and every call returns that one manager.
C11_InitOnce ==
    /\ minit.runs <= 1
    /\ Cardinality(InBody) <= 1
    /\ Len(minit.logs) <= 1
    /\ PastOnce # {} => (once /\ minit.runs = 1 /\ InBody = {})
    /\ once => manager = minit.final
    /\ \A t \in Threads : ret[t] # NoReturn => ret[t] = minit.final
    /\ \A t \in Threads : pc[t] = "done" => ret[t] = manager

C11_Witness ==
    /\ \A t \in Threads : pc[t] = "done"
    /\ minit.waits >= 1
    /\ minit.runs = 1
    /\ \A t \in Threads : ret[t] = manager
    /\ manager # NullManager

FallbackOrder == <<"ndk", "legacy", "empty">>

\* the attempt that produced a manager, 0 when none did
FirstObtained ==
    IF \E i \in DOMAIN minit.avail : minit.avail[i]
    THEN CHOOSE i \in DOMAIN minit.avail :
             minit.avail[i] /\ \A j \in 1..(i - 1) : ~minit.avail[j]
    ELSE 0

\* C20: initialization tries the NDK enumerator, the legacy enumerator only
\* if the NDK one yielded nothing, the empty manager only if both yielded
\* nothing; the manager kept is the first one obtained; exactly one line is
\* logged, the family count of the manager or the failure.
C20_FallbackOrder ==
    /\ Len(minit.tried) <= Len(FallbackOrder)
    /\ minit.tried = SubSeq(FallbackOrder, 1, Len(minit.tried))
    /\ \A i \in DOMAIN minit.avail : i < Len(minit.avail) => ~minit.avail[i]
    /\ ~once => minit.logs = <<>>
    /\ once =>
           /\ minit.tried # <<>>
           /\ FirstObtained = 0 => (Len(minit.tried) = 3
                                      /\ manager = NullManager)
           /\ FirstObtained # 0 =>
                  /\ FirstObtained = Len(minit.tried)
                  /\ manager.kind = minit.tried[FirstObtained]
           /\ manager = NewManager(minit.avail[1],
                                   Len(minit.avail) >= 2 /\ minit.avail[2],
                                   Len(minit.avail) >= 3 /\ minit.avail[3],
                                   minit.fonts, minit.weights)
           /\ Len(minit.logs) = 1
           /\ IF manager = NullManager
              THEN minit.logs[1].level = "ERROR"
              ELSE /\ minit.logs[1].level = "INFO"
                   /\ minit.logs[1].args = <<countFamilies(manager)>>

C20_Witness ==
    /\ once
    /\ minit.tried = <<"ndk", "legacy">>
    /\ manager.kind = "legacy"
    /\ countFamilies(manager) = 2
    /\ Len(minit.logs) = 1

C20_WitnessEmpty ==
    /\ once
    /\ minit.tried = FallbackOrder
    /\ manager.kind = "empty"
    /\ minit.logs[1].args = <<0>>

FlushPurgeOps ==
    {"surface_flush_gl", "surface_flush_vulkan",
     "context_purge_resources_gl", "context_purge_resources_vulkan"}

ContextCreators == {"context_create_gl", "context_create_vulkan"}

\* C22: a flush or a purge call leaves the caller's reference to the context,
\* the backend of the context and the surface (its width, height and color
\* format) as they were; the reference count drops only in a destroy call on
\* a non-null context, by exactly one, and rises only when a context is
\* created; a surface, once created, changes only by being replaced by a
\* newly created one or by the end of its context.
C22_FlushPurgeKeepOwnership ==
    [][/\ (gcall' # gcall /\ gcall'.op \in FlushPurgeOps) =>
              /\ dctx'.refs = dctx.refs
              /\ dctx'.kind = dctx.kind
              /\ dctx'.instance = dctx.instance
              /\ dctx'.surface = dctx.surface
       /\ (gcall' # gcall /\ gcall'.op = "context_destroy"
              /\ gcall'.args[1] # 0) =>
              dctx'.refs = dctx.refs - 1
       /\ dctx'.refs < dctx.refs =>
              (gcall'.op = "context_destroy" /\ gcall'.args[1] # 0)
       /\ dctx'.refs > dctx.refs => gcall'.op \in ContextCreators
       /\ dctx'.surface # dctx.surface =>
              gcall'.op \in SurfaceCreators \cup ContextCreators
                              \cup {"context_destroy"}]_vars

C22_Witness ==
    /\ IsPurge("context_purge_resources_gl")
    /\ gcall.env.before.pools = 1
    /\ gcall.env.before.work = "submitted"
    /\ dctx.refs = 1
    /\ dctx.surface # NullSurface
    /\ dctx.surface = gcall.env.before.surface
    /\ dctx.surface.width = 3
    /\ dctx.surface.height = 2
    /\ dctx.surface.color = "kRGBA_8888"

C22_WitnessFlush ==
    /\ IsFlush("surface_flush_vulkan")
    /\ gcall.env.before = "pending"
    /\ dctx.refs = 1
    /\ dctx.surface # NullSurface
    /\ dctx.surface.width = 3

(***************************************************************************)
(* Properties of the concurrent resolver (checked under SpecRace)          *)
(***************************************************************************)

\* no thread is inside resolve_typeface
AllIdle == \A t \in Threads : rt.th[t].pc = "idle"

\* the slot holds the key and the typeface of the last call of thread t
SlotFrom(t) ==
    /\ rt.th[t].done
    /\ cache.family = rt.th[t].family
    /\ cache.weight = rt.th[t].weight
    /\ cache.style = rt.th[t].style
    /\ cache.typeface = rt.th[t].typeface

\* the slot pairs the key of the last call of one thread with the typeface
\* of the last call of another, whose key and typeface were different
SlotMismatch ==
    \E t \in Threads, u \in Threads :
        /\ rt.th[t].done
        /\ rt.th[u].done
        /\ cache.family = rt.th[t].family
        /\ cache.weight = rt.th[t].weight
        /\ cache.style = rt.th[t].style
        /\ cache.typeface = rt.th[u].typeface
        /\ <<rt.th[t].family, rt.th[t].weight, rt.th[t].style>>
               # <<rt.th[u].family, rt.th[u].weight, rt.th[u].style>>
        /\ rt.th[t].typeface # rt.th[u].typeface

\* C23: when the host serializes the calls at most one thread is inside
\* resolve_typeface, and whenever none is inside and a call has finished the
\* slot holds the key and the typeface of one finished call, never the key of
\* one call with the typeface of another. (That a mismatched slot is reached
\* without serialization is the witness.)
C23_SerializedNoMismatch ==
    rt.serial =>
        /\ Cardinality({t \in Threads : rt.th[t].pc # "idle"}) <= 1
        /\ (AllIdle /\ \E t \in Threads : rt.th[t].done) =>
               \E t \in Threads : SlotFrom(t)
        /\ AllIdle => ~SlotMismatch

C23_Witness ==
    /\ ~rt.serial
    /\ AllIdle
    /\ SlotMismatch
    /\ \A t \in Threads : ~SlotFrom(t)

(***************************************************************************)
(* Properties of the Skottie accessors (checked under SpecSkottie)         *)
(***************************************************************************)

\* the last call made no library call and left the animation and the
\* caller's output cells as they were
SkNoOp == gcall.calls = <<>> /\ sk = gcall.env.before

\* C24: get_duration and get_size return 0 and write nothing when the
\* animation or an output pointer is null; with all pointers non-null
\* get_size writes the animation's width and height to both outputs and
\* returns 1 exactly when both are greater than 0, else 0; create returns
\* null for null data or a length of 0 or less; destroy, seek and render do
\* nothing on a null animation.
C24_SkottieFailures ==
    /\ (gcall.op = "skottie_get_duration"
           /\ (gcall.args[1] = 0 \/ gcall.args[2] = 0)) =>
           (gcall.result = IntResult(0) /\ SkNoOp)
    /\ (gcall.op = "skottie_get_size"
           /\ (gcall.args[1] = 0 \/ gcall.args[2] = 0
                  \/ gcall.args[3] = 0)) =>
           (gcall.result = IntResult(0) /\ SkNoOp)
    /\ (gcall.op = "skottie_get_size" /\ gcall.args[1] # 0
           /\ gcall.args[2] # 0 /\ gcall.args[3] # 0) =>
           /\ sk.out.width = gcall.env.before.anim.width
           /\ sk.out.height = gcall.env.before.anim.height
           /\ sk.out.duration = gcall.env.before.out.duration
           /\ sk.anim = gcall.env.before.anim
           /\ gcall.result.value \in {0, 1}
           /\ gcall.result.value = 1 <=>
                  (sk.out.width > 0 /\ sk.out.height > 0)
    /\ (gcall.op = "skottie_create"
           /\ (gcall.args[1] = 0 \/ gcall.args[2] <= 0)) =>
           (gcall.result = NullSurface /\ SkNoOp)
    /\ (gcall.op \in {"skottie_destroy", "skottie_seek", "skottie_render"}
           /\ gcall.args[1] = 0) =>
           SkNoOp

C24_Witness ==
    /\ gcall.op = "skottie_get_size"
    /\ gcall.args = <<1, 1, 1>>
    /\ gcall.result = IntResult(0)
    /\ sk.out.width = 4
    /\ sk.out.height = 0
    /\ gcall.env.before.out.width # 4

C24_WitnessNull ==
    /\ gcall.op = "skottie_get_size"
    /\ gcall.args = <<1, 1, 0>>
    /\ gcall.result = IntResult(0)
    /\ sk.anim # NoAnimation
    /\ sk.out.width = -1

====
